---- MODULE Spec2Model ----
(***************************************************************************)
(* Model of the directory-watching plugin of src/src/lib.rs:               *)
(* scan_directories_system (PreUpdate) rescans the watched roots at most   *)
(* once per scan interval, slap_img_on_quad (Update, gated by should_run)  *)
(* spawns one quad per image path that has no ImageMarker yet.             *)
(*                                                                         *)
(* Time is counted in whole seconds.  Positions are counted in quarters of *)
(* a world unit, so that the spacing 2.5 and the centring offsets          *)
(* (grid_size - 1) * 1.25 are integers.                                    *)
(***************************************************************************)
EXTENDS Integers, Sequences, FiniteSets

VARIABLES
    dirs,        \* WatchedDirs.dirs: the configured roots, in order
    imgs,        \* WatchedDirs.imgs: result of the last executed scan
    last_scan,   \* Local<Option<f32>> of scan_directories_system
    quads,       \* spawned entities: sequence of [target, pos]
    commands,    \* spawn commands queued by slap_img_on_quad, not yet applied
    now,         \* Time::elapsed_secs
    disk,        \* the paths that exist on disk
    unreadable,  \* directories whose fs::read_dir fails
    pc,          \* position in the frame: Idle, PreUpdate, Update, Flush
    disk_ops,    \* number of changes made to the disk so far
    scan_times,  \* history: clock value of every executed scan pass
    ever_found,  \* history: every path some executed scan has put in imgs
    reconciled,  \* history: imgs of the last pass whose spawns were applied
    pass_ran,    \* history: slap_img_on_quad was run in this frame
    links,       \* the symbolic links that exist on disk
    walk,        \* the scan pass in progress, when it is followed step by step
    grid         \* one call of calculate_grid_position: its inputs and result

vars == <<dirs, imgs, last_scan, quads, commands, now, disk, unreadable, pc,
          disk_ops, scan_times, ever_found, reconciled, pass_ran, links, walk,
          grid>>

\* What the frame loop leaves alone.
aside == <<links, walk, grid>>

-----------------------------------------------------------------------------
(* Bounds of the model. *)

MaxTime == 6        \* the clock stops advancing here
MaxStep == 5         \* largest clock advance between two frames
MaxDiskOps == 2      \* number of changes made to the disk during a run
MaxFound == 10       \* longest imgs a position is computed for on its own
MaxSymlinks == 2     \* symbolic links the OS follows when it resolves a path

\* Option<T>: None is the empty sequence, Some(x) the sequence <<x>>.
None == <<>>
Some(x) == <<x>>

-----------------------------------------------------------------------------
(* The directory tree the roots can reach. *)

Dirs == {"/a", "/a/sub", "/b"}
Files == {"/a/x.jpg", "/a/sub/y.PNG", "/a/sub/z.txt", "/b/w.Jpeg", "/b/.png"}
Paths == Dirs \cup Files

Parent ==
    [p \in Paths |->
        CASE p = "/a" -> "/"
          [] p = "/b" -> "/"
          [] p = "/a/sub" -> "/a"
          [] p = "/a/x.jpg" -> "/a"
          [] p = "/a/sub/y.PNG" -> "/a/sub"
          [] p = "/a/sub/z.txt" -> "/a/sub"
          [] p = "/b/w.Jpeg" -> "/b"
          [] p = "/b/.png" -> "/b"]

\* Final component of a path, one character per element.
FileName ==
    [p \in Paths |->
        CASE p = "/a" -> <<"a">>
          [] p = "/b" -> <<"b">>
          [] p = "/a/sub" -> <<"s", "u", "b">>
          [] p = "/a/x.jpg" -> <<"x", ".", "j", "p", "g">>
          [] p = "/a/sub/y.PNG" -> <<"y", ".", "P", "N", "G">>
          [] p = "/a/sub/z.txt" -> <<"z", ".", "t", "x", "t">>
          [] p = "/b/w.Jpeg" -> <<"w", ".", "J", "p", "e", "g">>
          [] p = "/b/.png" -> <<".", "p", "n", "g">>]

\* Position of a path in the sorted listing of its parent directory.
Rank ==
    [p \in Paths |->
        CASE p = "/a" -> 1
          [] p = "/b" -> 2
          [] p = "/a/sub" -> 1
          [] p = "/a/x.jpg" -> 2
          [] p = "/a/sub/y.PNG" -> 1
          [] p = "/a/sub/z.txt" -> 2
          [] p = "/b/.png" -> 1
          [] p = "/b/w.Jpeg" -> 2]

RECURSIVE IsUnder(_, _)
IsUnder(p, d) ==
    /\ p \in Paths
    /\ \/ Parent[p] = d
       \/ IsUnder(Parent[p], d)

Subtree(d) == {d} \cup {p \in Paths : IsUnder(p, d)}

\* The root lists a run can be configured with.
RootLists ==
    { <<"/a">>, <<"/a", "/b">>, <<"/b", "/a">>,
      <<"/a", "/a">>, <<"/a", "/a/sub">>, <<"/a", "/b", "/a">> }

\* Orders in which fs::read_dir can yield the entries of a directory.
ReadDirOrders == {"asc", "desc"}

-----------------------------------------------------------------------------
(* Path predicates: std::path::Path::{exists, is_dir, is_file}. *)

exists(p) == p \in disk
is_dir(p) == p \in disk /\ p \in Dirs
is_file(p) == p \in disk /\ p \in Files

-----------------------------------------------------------------------------
(* Extension matching. *)

SUPPORTED_EXTENSIONS ==
    { <<"j", "p", "g">>, <<"j", "p", "e", "g">>, <<"p", "n", "g">>,
      <<"g", "i", "f">>, <<"b", "m", "p">>, <<"t", "i", "f", "f">>,
      <<"t", "i", "f">>, <<"w", "e", "b", "p">>, <<"i", "c", "o">>,
      <<"s", "v", "g">> }

ASCII_UPPER ==
    <<"A", "B", "C", "D", "E", "F", "G", "H", "I", "J", "K", "L", "M",
      "N", "O", "P", "Q", "R", "S", "T", "U", "V", "W", "X", "Y", "Z">>
ASCII_LOWER ==
    <<"a", "b", "c", "d", "e", "f", "g", "h", "i", "j", "k", "l", "m",
      "n", "o", "p", "q", "r", "s", "t", "u", "v", "w", "x", "y", "z">>

\* str::to_lowercase on the characters file names are made of.
to_lowercase(s) ==
    [i \in 1..Len(s) |->
        IF \E k \in 1..Len(ASCII_UPPER) : ASCII_UPPER[k] = s[i]
        THEN ASCII_LOWER[CHOOSE k \in 1..Len(ASCII_UPPER) : ASCII_UPPER[k] = s[i]]
        ELSE s[i]]

\* Path::extension: the part of the file name after its last dot; None when
\* the name has no dot, or only a leading one.
extension(p) ==
    LET name == FileName[p]
        dots == {i \in 1..Len(name) : name[i] = "."}
        last == CHOOSE i \in dots : \A j \in dots : j <= i
    IN  IF dots = {} \/ last = 1
        THEN None
        ELSE Some(SubSeq(name, last + 1, Len(name)))

is_supported_image(p) ==
    /\ extension(p) # None
    /\ to_lowercase(extension(p)[1]) \in SUPPORTED_EXTENSIONS

-----------------------------------------------------------------------------
(* Directory traversal. *)

\* fs::read_dir(dir): the entries of dir, in the order the OS yields them.
RECURSIVE Listing(_, _)
Listing(S, ord) ==
    IF S = {}
    THEN <<>>
    ELSE LET first ==
                 IF ord = "asc"
                 THEN CHOOSE p \in S : \A q \in S : Rank[p] <= Rank[q]
                 ELSE CHOOSE p \in S : \A q \in S : Rank[p] >= Rank[q]
         IN  <<first>> \o Listing(S \ {first}, ord)

read_dir(dir, ord) == Listing({p \in disk : Parent[p] = dir}, ord)

\* Result<(), io::Error> together with the accumulator it was given.
Ok(images) == [ok |-> TRUE, images |-> images]
Err(images) == [ok |-> FALSE, images |-> images]

RECURSIVE collect_images_recursive(_, _, _)
RECURSIVE collect_entries(_, _, _)

\* The for loop of collect_images_recursive over the entries still to visit.
collect_entries(entries, images, ord) ==
    IF entries = <<>>
    THEN Ok(images)
    ELSE LET path == Head(entries) IN
         IF is_dir(path)
         THEN LET r == collect_images_recursive(path, images, ord) IN
              IF r.ok
              THEN collect_entries(Tail(entries), r.images, ord)
              ELSE r
         ELSE IF is_file(path) /\ is_supported_image(path)
         THEN collect_entries(Tail(entries), Append(images, path), ord)
         ELSE collect_entries(Tail(entries), images, ord)

collect_images_recursive(dir, images, ord) ==
    IF ~is_dir(dir)
    THEN Ok(images)
    ELSE IF dir \in unreadable
    THEN Err(images)
    ELSE collect_entries(read_dir(dir, ord), images, ord)

\* Mutant: the loop over the roots ends at the first root that is missing.
RECURSIVE scan_dirs_until_missing(_, _, _)
scan_dirs_until_missing(roots, images, ord) ==
    IF roots = <<>>
    THEN images
    ELSE LET dir == Head(roots) IN
         IF exists(dir)
         THEN scan_dirs_until_missing(
                  Tail(roots),
                  collect_images_recursive(dir, images, ord).images, ord)
         ELSE images

\* The for loop of scan over the roots still to visit.
RECURSIVE scan_dirs(_, _, _)
scan_dirs(roots, images, ord) ==
    IF roots = <<>>
    THEN images
    ELSE LET dir == Head(roots) IN
         IF exists(dir)
         THEN scan_dirs(Tail(roots),
                        collect_images_recursive(dir, images, ord).images, ord)
         ELSE scan_dirs(Tail(roots), images, ord)

\* Mutant: the pass does not clear imgs before it collects.
scan_without_clear(ord) == scan_dirs(dirs, imgs, ord)

\* WatchedDirs::scan: the value of imgs after the pass.
scan(ord) == scan_dirs(dirs, <<>>, ord)

-----------------------------------------------------------------------------
(* scan_directories_system, run in PreUpdate. *)

scan_interval == 5

\* Mutant: the comparison of the early return is off by one second.
rate_limited_off_by_one ==
    /\ last_scan # None
    /\ now - last_scan[1] < scan_interval - 1

\* The early return: a scan was executed less than scan_interval ago.
rate_limited ==
    /\ last_scan # None
    /\ now - last_scan[1] < scan_interval

Range(s) == {s[i] : i \in DOMAIN s}

\* Mutant: the early return records the time of the step it turns down.
scan_directories_system_stamping ==
    /\ pc = "PreUpdate"
    /\ IF rate_limited
       THEN /\ last_scan' = Some(now)
            /\ UNCHANGED <<imgs, scan_times, ever_found>>
       ELSE \E ord \in ReadDirOrders :
               /\ imgs' = scan(ord)
               /\ last_scan' = Some(now)
               /\ scan_times' = Append(scan_times, now)
               /\ ever_found' = ever_found \cup Range(scan(ord))
    /\ pc' = "Update"
    /\ UNCHANGED <<dirs, quads, commands, now, disk, unreadable, disk_ops,
                   reconciled, pass_ran, aside>>

\* Mutant: a pass in which a directory read can fail does not record its time.
scan_directories_system_retrying ==
    /\ pc = "PreUpdate"
    /\ IF rate_limited
       THEN UNCHANGED <<imgs, last_scan, scan_times, ever_found>>
       ELSE \E ord \in ReadDirOrders :
               /\ imgs' = scan(ord)
               /\ last_scan' = IF unreadable = {} THEN Some(now) ELSE last_scan
               /\ scan_times' = Append(scan_times, now)
               /\ ever_found' = ever_found \cup Range(scan(ord))
    /\ pc' = "Update"
    /\ UNCHANGED <<dirs, quads, commands, now, disk, unreadable, disk_ops,
                   reconciled, pass_ran, aside>>

scan_directories_system ==
    /\ pc = "PreUpdate"
    /\ IF rate_limited
       THEN UNCHANGED <<imgs, last_scan, scan_times, ever_found>>
       ELSE \E ord \in ReadDirOrders :
               /\ imgs' = scan(ord)
               /\ last_scan' = Some(now)
               /\ scan_times' = Append(scan_times, now)
               /\ ever_found' = ever_found \cup Range(scan(ord))
    /\ pc' = "Update"
    /\ UNCHANGED <<dirs, quads, commands, now, disk, unreadable, disk_ops,
                   reconciled, pass_ran, aside>>

-----------------------------------------------------------------------------
(* slap_img_on_quad, run in Update when should_run holds. *)

\* Mutant: the run condition holds in every frame.
should_run_always == TRUE

should_run == imgs # <<>>

quad_spacing == 10      \* 2.5, in quarters of a unit

\* Mutant: the square root is truncated, not rounded up.
ceil_sqrt_truncated(n) ==
    CHOOSE g \in 0..n : g * g <= n /\ (g + 1) * (g + 1) > n

\* (n as f32).sqrt().ceil() as i32
ceil_sqrt(n) ==
    CHOOSE g \in 0..n : g * g >= n /\ \A h \in 0..n : h * h >= n => g <= h

calculate_grid_position(index, grid_size, spacing) ==
    LET row == index \div grid_size
        col == index % grid_size
        offset_x == ((grid_size - 1) * spacing) \div 2
        offset_z == ((grid_size - 1) * spacing) \div 2
    IN  [x |-> (col * spacing) - offset_x,
         y |-> 0,
         z |-> (row * spacing) - offset_z]

\* The paths of the ImageMarker components the query yields.
existing_paths == {quads[i].target : i \in DOMAIN quads}

\* Mutant: the pass spawns a quad for every path of imgs, new or not.
spawn_commands_unfiltered ==
    LET grid_size == ceil_sqrt(Len(imgs))
    IN  [i \in 1..Len(imgs) |->
            [target |-> imgs[i],
             pos |-> calculate_grid_position(i - 1, grid_size, quad_spacing)]]

\* Mutant: the pass walks the roots as well as the images.
spawn_commands_over_dirs ==
    LET all == dirs \o imgs
        grid_size == ceil_sqrt(Len(all))
        is_new(q) == q.target \notin existing_paths
    IN  SelectSeq([i \in 1..Len(all) |->
                      [target |-> all[i],
                       pos |-> calculate_grid_position(i - 1, grid_size,
                                                       quad_spacing)]],
                  is_new)

\* Mutant: a new path is placed by its rank among the new paths.
spawn_commands_by_rank ==
    LET grid_size == ceil_sqrt(Len(imgs))
        is_new_path(p) == p \notin existing_paths
        fresh == SelectSeq(imgs, is_new_path)
    IN  [k \in 1..Len(fresh) |->
            [target |-> fresh[k],
             pos |-> calculate_grid_position(k - 1, grid_size, quad_spacing)]]

\* The spawn commands of one pass, in the order they are issued.  The
\* index of the code is zero-based.
spawn_commands ==
    LET grid_size == ceil_sqrt(Len(imgs))
        all == [i \in 1..Len(imgs) |->
                   [target |-> imgs[i],
                    pos |-> calculate_grid_position(i - 1, grid_size,
                                                    quad_spacing)]]
        is_new(q) == q.target \notin existing_paths
    IN  SelectSeq(all, is_new)

\* Mutant: the pass empties imgs once it has spawned the quads.
slap_img_on_quad_draining ==
    /\ pc = "Update"
    /\ should_run
    /\ commands' = spawn_commands
    /\ reconciled' = imgs
    /\ imgs' = <<>>
    /\ pc' = "Flush"
    /\ pass_ran' = TRUE
    /\ UNCHANGED <<dirs, last_scan, quads, now, disk, unreadable,
                   disk_ops, scan_times, ever_found, aside>>

slap_img_on_quad ==
    /\ pc = "Update"
    /\ should_run
    /\ commands' = spawn_commands
    /\ reconciled' = imgs
    /\ pc' = "Flush"
    /\ pass_ran' = TRUE
    /\ UNCHANGED <<dirs, imgs, last_scan, quads, now, disk, unreadable,
                   disk_ops, scan_times, ever_found, aside>>

\* run_if(should_run) is false: the system is not run this frame.
slap_img_on_quad_skipped ==
    /\ pc = "Update"
    /\ ~should_run
    /\ pc' = "Flush"
    /\ pass_ran' = FALSE
    /\ UNCHANGED <<dirs, imgs, last_scan, quads, commands, now, disk,
                   unreadable, disk_ops, scan_times, ever_found, reconciled,
                   aside>>

\* Mutant: quads whose image is in imgs no longer are despawned.
apply_commands_evicting ==
    LET is_current(q) == q.target \in Range(imgs)
    IN  /\ pc = "Flush"
        /\ quads' = SelectSeq(quads, is_current) \o commands
        /\ commands' = <<>>
        /\ pc' = "Idle"
        /\ UNCHANGED <<dirs, imgs, last_scan, now, disk, unreadable, disk_ops,
                       scan_times, ever_found, reconciled, pass_ran, aside>>

\* The command queue is applied when the schedule ends: every queued spawn
\* becomes an entity.
apply_commands ==
    /\ pc = "Flush"
    /\ quads' = quads \o commands
    /\ commands' = <<>>
    /\ pc' = "Idle"
    /\ UNCHANGED <<dirs, imgs, last_scan, now, disk, unreadable, disk_ops,
                   scan_times, ever_found, reconciled, pass_ran, aside>>

-----------------------------------------------------------------------------
(* The host loop and the file system, between two frames. *)

\* The next frame starts, d seconds after the previous one.
next_frame(d) ==
    /\ pc = "Idle"
    /\ now + d <= MaxTime
    /\ now' = now + d
    /\ pc' = "PreUpdate"
    /\ pass_ran' = FALSE
    /\ UNCHANGED <<dirs, imgs, last_scan, quads, commands, disk, unreadable,
                   disk_ops, scan_times, ever_found, reconciled, aside>>

create_path(p) ==
    /\ pc = "Idle"
    /\ disk_ops < MaxDiskOps
    /\ p \notin disk
    /\ Parent[p] = "/" \/ Parent[p] \in disk
    /\ disk' = disk \cup {p}
    /\ disk_ops' = disk_ops + 1
    /\ UNCHANGED <<dirs, imgs, last_scan, quads, commands, now, unreadable,
                   pc, scan_times, ever_found, reconciled, pass_ran, aside>>

\* p is removed together with everything below it.
remove_path(p) ==
    /\ pc = "Idle"
    /\ disk_ops < MaxDiskOps
    /\ p \in disk
    /\ disk' = disk \ Subtree(p)
    /\ unreadable' = unreadable \ Subtree(p)
    /\ disk_ops' = disk_ops + 1
    /\ UNCHANGED <<dirs, imgs, last_scan, quads, commands, now, pc,
                   scan_times, ever_found, reconciled, pass_ran, aside>>

\* Reading directory d starts, or stops, failing.
toggle_readable(d) ==
    /\ pc = "Idle"
    /\ disk_ops < MaxDiskOps
    /\ d \in disk
    /\ unreadable' = IF d \in unreadable
                     THEN unreadable \ {d}
                     ELSE unreadable \cup {d}
    /\ disk_ops' = disk_ops + 1
    /\ UNCHANGED <<dirs, imgs, last_scan, quads, commands, now, disk, pc,
                   scan_times, ever_found, reconciled, pass_ran, aside>>

-----------------------------------------------------------------------------

\* No scan pass is followed step by step, no position is being computed.
NoWalk == [stack |-> <<>>, todo |-> <<>>, images |-> <<>>, ord |-> "asc"]
NoGrid == [len |-> 0, index |-> 0, pos |-> None]

\* DirWatchingPlugin::build: the roots are configured, nothing is found yet.
Init ==
    /\ dirs \in RootLists
    /\ imgs = <<>>
    /\ last_scan = None
    /\ quads = <<>>
    /\ commands = <<>>
    /\ now = 0
    /\ disk = Paths
    /\ unreadable = {}
    /\ pc = "Idle"
    /\ disk_ops = 0
    /\ scan_times = <<>>
    /\ ever_found = {}
    /\ reconciled = <<>>
    /\ pass_ran = FALSE
    /\ links = {}
    /\ walk = NoWalk
    /\ grid = NoGrid

\* Mutant: a frame in which slap_img_on_quad is run before the scan, on the
\* imgs of the frame before.
scan_after_update ==
    /\ pc = "PreUpdate"
    /\ commands' = IF should_run THEN spawn_commands ELSE <<>>
    /\ reconciled' = IF should_run THEN imgs ELSE reconciled
    /\ pass_ran' = should_run
    /\ IF rate_limited
       THEN UNCHANGED <<imgs, last_scan, scan_times, ever_found>>
       ELSE \E ord \in ReadDirOrders :
               /\ imgs' = scan(ord)
               /\ last_scan' = Some(now)
               /\ scan_times' = Append(scan_times, now)
               /\ ever_found' = ever_found \cup Range(scan(ord))
    /\ pc' = "Flush"
    /\ UNCHANGED <<dirs, quads, now, disk, unreadable, disk_ops, aside>>

Next_update_before_scan ==
    \/ scan_after_update
    \/ apply_commands
    \/ \E d \in 0..MaxStep : next_frame(d)
    \/ \E p \in Paths : create_path(p)
    \/ \E p \in Paths : remove_path(p)
    \/ \E d \in Dirs : toggle_readable(d)

Next ==
    \/ scan_directories_system
    \/ slap_img_on_quad
    \/ slap_img_on_quad_skipped
    \/ apply_commands
    \/ \E d \in 0..MaxStep : next_frame(d)
    \/ \E p \in Paths : create_path(p)
    \/ \E p \in Paths : remove_path(p)
    \/ \E d \in Dirs : toggle_readable(d)

Spec == Init /\ [][Next]_vars

-----------------------------------------------------------------------------
(* WatchedDirs::scan followed step by step, on a tree that can hold        *)
(* symbolic links to an ancestor directory.  A path is the node it leads   *)
(* to, together with the links it goes through: /a/up/sub/y.PNG is         *)
(* [via |-> <<"up">>, node |-> "/a/sub/y.PNG"].                            *)

\* /a/up and /a/sub/back both point to /a.
Links == {"up", "back"}
LinkHome == [l \in Links |-> IF l = "up" THEN "/a" ELSE "/a/sub"]
LinkTarget == [l \in Links |-> "/a"]

WalkPath(node) == [via |-> <<>>, node |-> node]

\* The OS resolves the path: it gives up on a path that goes through more
\* than MaxSymlinks links, and is_dir and is_file are false of it then.
walk_resolves(p) == Len(p.via) <= MaxSymlinks
walk_is_dir(p) == walk_resolves(p) /\ is_dir(p.node)
walk_is_file(p) == walk_resolves(p) /\ is_file(p.node)

\* fs::read_dir(p) with entry.path() of every entry: the entries of the
\* directory p leads to, and the link that lives there.
walk_read_dir(p, ord) ==
    LET real == read_dir(p.node, ord)
        here == {l \in links : LinkHome[l] = p.node}
    IN  [i \in 1..Len(real) |-> [via |-> p.via, node |-> real[i]]]
        \o IF here = {}
           THEN <<>>
           ELSE LET l == CHOOSE l \in here : TRUE
                IN  <<[via |-> Append(p.via, l), node |-> LinkTarget[l]]>>

\* The call frame of collect_images_recursive(dir, ..): the entries its for
\* loop has still to visit.
Frame(dir, ord) == [dir |-> dir, entries |-> walk_read_dir(dir, ord)]

Top == walk.stack[Len(walk.stack)]
Below == SubSeq(walk.stack, 1, Len(walk.stack) - 1)
Advanced == Append(Below, [Top EXCEPT !.entries = Tail(Top.entries)])

WalkFrame ==
    UNCHANGED <<dirs, imgs, last_scan, quads, commands, now, disk, unreadable,
                pc, disk_ops, scan_times, ever_found, reconciled, pass_ran,
                links, grid>>

\* scan: the for loop takes the next root and calls
\* collect_images_recursive on it, when it exists.
walk_root ==
    /\ pc = "PreUpdate"
    /\ walk.stack = <<>>
    /\ walk.todo # <<>>
    /\ LET dir == WalkPath(Head(walk.todo)) IN
       walk' = [walk EXCEPT
                   !.todo = Tail(walk.todo),
                   !.stack =
                       IF /\ exists(dir.node)
                          /\ walk_is_dir(dir)
                          /\ dir.node \notin unreadable
                       THEN <<Frame(dir, walk.ord)>>
                       ELSE <<>>]
    /\ WalkFrame

\* Mutant: an entry that is neither a directory nor an image is visited
\* again and again.
walk_entry_stuck ==
    /\ pc = "PreUpdate"
    /\ walk.stack # <<>>
    /\ Top.entries # <<>>
    /\ LET path == Head(Top.entries) IN
       IF walk_is_dir(path)
       THEN IF path.node \in unreadable
            THEN walk' = [walk EXCEPT !.stack = <<>>]
            ELSE walk' = [walk EXCEPT
                             !.stack = Append(Advanced, Frame(path, walk.ord))]
       ELSE IF walk_is_file(path) /\ is_supported_image(path.node)
       THEN walk' = [walk EXCEPT !.stack = Advanced,
                                 !.images = Append(walk.images, path)]
       ELSE walk' = walk
    /\ WalkFrame

\* collect_images_recursive: one turn of the for loop.  A directory is
\* entered; when its read fails, the error unwinds every frame down to scan.
walk_entry ==
    /\ pc = "PreUpdate"
    /\ walk.stack # <<>>
    /\ Top.entries # <<>>
    /\ LET path == Head(Top.entries) IN
       IF walk_is_dir(path)
       THEN IF path.node \in unreadable
            THEN walk' = [walk EXCEPT !.stack = <<>>]
            ELSE walk' = [walk EXCEPT
                             !.stack = Append(Advanced, Frame(path, walk.ord))]
       ELSE IF walk_is_file(path) /\ is_supported_image(path.node)
       THEN walk' = [walk EXCEPT !.stack = Advanced,
                                 !.images = Append(walk.images, path)]
       ELSE walk' = [walk EXCEPT !.stack = Advanced]
    /\ WalkFrame

\* collect_images_recursive: the for loop is over, Ok(()) is returned.
walk_return ==
    /\ pc = "PreUpdate"
    /\ walk.stack # <<>>
    /\ Top.entries = <<>>
    /\ walk' = [walk EXCEPT !.stack = Below]
    /\ WalkFrame

\* scan returns, scan_directories_system records the time of the pass.
walk_finish ==
    /\ pc = "PreUpdate"
    /\ walk.stack = <<>>
    /\ walk.todo = <<>>
    /\ imgs' = walk.images
    /\ last_scan' = Some(now)
    /\ scan_times' = Append(scan_times, now)
    /\ ever_found' = ever_found \cup Range(walk.images)
    /\ pc' = "Update"
    /\ UNCHANGED <<dirs, quads, commands, now, disk, unreadable, disk_ops,
                   reconciled, pass_ran, links, walk, grid>>

\* The first scan step: no scan was executed before, imgs was cleared.
WalkInit ==
    /\ dirs \in RootLists
    /\ imgs = <<>>
    /\ last_scan = None
    /\ quads = <<>>
    /\ commands = <<>>
    /\ now = 0
    /\ disk \in {Paths, Paths \ Subtree("/b")}
    /\ unreadable \in {{}, {"/a/sub"}}
    /\ pc = "PreUpdate"
    /\ disk_ops = 0
    /\ scan_times = <<>>
    /\ ever_found = {}
    /\ reconciled = <<>>
    /\ pass_ran = FALSE
    /\ links \in SUBSET Links
    /\ walk \in {[stack |-> <<>>, todo |-> dirs, images |-> <<>>, ord |-> o] :
                    o \in ReadDirOrders}
    /\ grid = NoGrid

WalkNext ==
    \/ walk_root
    \/ walk_entry
    \/ walk_return
    \/ walk_finish

\* The pass runs synchronously in the frame: a step that can be taken is.
WalkSpec == WalkInit /\ [][WalkNext]_vars /\ WF_vars(WalkNext)

-----------------------------------------------------------------------------
(* calculate_grid_position on its own: slap_img_on_quad computes the       *)
(* position of the image at one index of an imgs of a given length.        *)

place_quad ==
    /\ grid.len > 0
    /\ grid.pos = None
    /\ grid' = [grid EXCEPT
                   !.pos = Some(calculate_grid_position(
                                    grid.index, ceil_sqrt(grid.len),
                                    quad_spacing))]
    /\ UNCHANGED <<dirs, imgs, last_scan, quads, commands, now, disk,
                   unreadable, pc, disk_ops, scan_times, ever_found,
                   reconciled, pass_ran, links, walk>>

GridInit ==
    /\ dirs = <<"/a">>
    /\ imgs = <<>>
    /\ last_scan = None
    /\ quads = <<>>
    /\ commands = <<>>
    /\ now = 0
    /\ disk = Paths
    /\ unreadable = {}
    /\ pc = "Update"
    /\ disk_ops = 0
    /\ scan_times = <<>>
    /\ ever_found = {}
    /\ reconciled = <<>>
    /\ pass_ran = FALSE
    /\ links = {}
    /\ walk = NoWalk
    /\ grid \in {[len |-> n, index |-> i, pos |-> None] :
                    n \in 1..MaxFound, i \in 0..(MaxFound - 1)}
    /\ grid.index < grid.len

GridNext == place_quad

GridSpec == GridInit /\ [][GridNext]_vars

-----------------------------------------------------------------------------
(* Vocabulary of the properties. *)

\* The files of the tree that are images, listed by hand.
SupportedFiles == {"/a/x.jpg", "/a/sub/y.PNG", "/b/w.Jpeg"}

Roots == Range(dirs)

\* The image files on disk below a root that exists.
ImagesUnderRoots ==
    {f \in SupportedFiles \cap disk :
        \E r \in Roots \cap disk : IsUnder(f, r)}

\* No directory the pass reads is one whose read fails.
NoReadFailure ==
    \A d \in unreadable : \A r \in Roots \cap disk : d \notin Subtree(r)

\* This step is a scan step that executed a scan pass.
ScanExecuted == scan_times' # scan_times

\* Number of elements of the sequence s whose target is p.
Targeting(s, p) == Cardinality({i \in DOMAIN s : s[i].target = p})

-----------------------------------------------------------------------------
(* C1: at most one tile per source path.  No path is the target of two     *)
(* quads, whatever the root list is.                                       *)
C1_OneTilePerPath ==
    \A p \in Paths : Targeting(quads, p) <= 1

(* C2: a reconciliation pass creates exactly one tile for each path of     *)
(* imgs that had no tile when the pass started, and none for a path that   *)
(* had one.  Stated on the command queue the pass leaves behind.           *)
C2_ExactlyOneTilePerNewPath ==
    pc = "Flush" =>
        \A p \in Paths :
            Targeting(commands, p) =
                IF p \in Range(imgs) /\ p \notin existing_paths THEN 1 ELSE 0

(* C3: any two executed scan passes are at least 5 seconds apart; a scan   *)
(* step run less than 5 seconds after the last executed pass executes      *)
(* none, every other scan step executes one.                               *)
C3_ScansAtLeastIntervalApart ==
    /\ [](\A i, j \in DOMAIN scan_times :
            i < j => scan_times[j] - scan_times[i] >= 5)
    /\ [][pc = "PreUpdate" =>
            IF last_scan # None /\ now - last_scan[1] < 5
            THEN scan_times' = scan_times /\ imgs' = imgs
            ELSE scan_times' = Append(scan_times, now)]_vars

\* Two scan passes were executed, and a later scan step was turned down.
C3_Witness ==
    /\ Len(scan_times) = 2
    /\ pc = "Update"
    /\ now > scan_times[2]

(* C4: after an executed scan pass in which no directory read failed, imgs *)
(* holds exactly the image files below the roots that exist, and nothing   *)
(* that an earlier pass had found and that is there no longer.             *)
C4_FoundIsExactlyTheImagesOnDisk ==
    [][(ScanExecuted /\ NoReadFailure) => Range(imgs') = ImagesUnderRoots]_vars

\* A pass over the root /a has found x.jpg and y.PNG and not z.txt, and a
\* path found by an earlier pass is in imgs no longer.
C4_Witness ==
    /\ pc = "Update"
    /\ dirs = <<"/a">>
    /\ Len(scan_times) = 2
    /\ disk_ops = 1
    /\ unreadable = {}
    /\ "/a/sub/z.txt" \in disk
    /\ Range(imgs) = {"/a/sub/y.PNG"}
    /\ ever_found = {"/a/x.jpg", "/a/sub/y.PNG"}

(* C5: when the read of a directory D fails during a pass, every image     *)
(* file outside the subtree of D, below the same root or another, is in    *)
(* imgs after the pass.                                                    *)
C5_OnlyFailedSubtreeIsLost ==
    [][ScanExecuted =>
          \A f \in ImagesUnderRoots :
              (\A d \in unreadable : ~IsUnder(f, d)) => f \in Range(imgs')]_vars

(* C6: a root that does not exist is skipped: the pass still finds the     *)
(* image files of every root that exists, wherever the missing root stands *)
(* in the list, finds nothing below the missing root, completes and        *)
(* records its scan time.                                                  *)
C6_MissingRootIsSkipped ==
    [][(ScanExecuted /\ NoReadFailure /\ Roots \ disk # {}) =>
          /\ ImagesUnderRoots \subseteq Range(imgs')
          /\ \A m \in Roots \ disk : \A f \in Range(imgs') : ~IsUnder(f, m)
          /\ last_scan' = Some(now)
          /\ pc' = "Update"]_vars

\* The first root was removed, the pass that followed found the images of
\* the second root.
C6_Witness ==
    /\ pc = "Update"
    /\ dirs = <<"/b", "/a">>
    /\ disk_ops = 1
    /\ "/b" \notin disk
    /\ last_scan = Some(now)
    /\ Range(imgs) = {"/a/x.jpg", "/a/sub/y.PNG"}

(* C7: no tile is removed or repositioned: a quad that exists, exists with *)
(* the same target and the same position in every later state.            *)
C7_TilesAreNeverRemovedOrMoved ==
    [][/\ Len(quads') >= Len(quads)
       /\ \A i \in DOMAIN quads : quads'[i] = quads[i]]_vars

\* A root was removed from disk after its images got their quads; the pass
\* that followed found fewer images, and the quads are still there.
C7_Witness ==
    /\ pc = "Idle"
    /\ Len(scan_times) = 2
    /\ \E r \in Roots : r \notin disk
    /\ Len(imgs) < Len(quads)
    /\ \E i \in DOMAIN quads :
           /\ quads[i].target \notin disk
           /\ quads[i].target \notin Range(imgs)

(* C8: a scan step run less than 5 seconds after the last executed scan    *)
(* leaves imgs and last_scan as they are, whatever changed on disk.        *)
C8_RateLimitedScanStepChangesNothing ==
    [][(pc = "PreUpdate" /\ last_scan # None /\ now - last_scan[1] < 5) =>
          (imgs' = imgs /\ last_scan' = last_scan)]_vars

\* A scan step was turned down although the images on disk are not the ones
\* in imgs any more.
C8_Witness ==
    /\ pc = "Update"
    /\ last_scan # None
    /\ now > last_scan[1]
    /\ now - last_scan[1] < 5
    /\ unreadable = {}
    /\ Range(imgs) # ImagesUnderRoots

(* C9: reconciliation is idempotent: a pass over the imgs of the pass      *)
(* before it, whose spawns were applied, spawns nothing.                   *)
C9_SecondPassSpawnsNothing ==
    [][(pc = "Update" /\ should_run /\ reconciled = imgs) =>
          commands' = <<>>]_vars

\* A pass has spawned nothing: the only scan executed so far found images,
\* and an earlier pass over them has spawned their quads.
C9_Witness ==
    /\ pc = "Flush"
    /\ Len(scan_times) = 1
    /\ imgs # <<>>
    /\ reconciled = imgs
    /\ commands = <<>>
    /\ Range(imgs) = existing_paths

(* C10: every quad is the quad of a path that some executed scan pass put  *)
(* in imgs.                                                                *)
C10_TilesComeFromFound ==
    existing_paths \subseteq ever_found

\* A quad exists for a path that an earlier pass found and the last one did
\* not.
C10_Witness ==
    /\ quads # <<>>
    /\ Len(scan_times) = 2
    /\ ~(existing_paths \subseteq Range(imgs))

WalkAgreesWithScan ==
    (pc = "Update" /\ links = {}) =>
        [i \in DOMAIN imgs |-> imgs[i].node] = scan(walk.ord)

(* C12: after every executed scan pass imgs is a deduplicated list: no     *)
(* path occurs in it more than once, whatever the root list is.            *)
C12_FoundHasNoDuplicates ==
    \A i, j \in DOMAIN imgs : imgs[i] = imgs[j] => i = j

(* C13: in every frame the scan step has completed when the               *)
(* reconciliation step reads imgs: when the Update schedule is over, the   *)
(* tile of every path of imgs, the ones the scan of this frame found       *)
(* included, exists or is queued.                                          *)
C13_FoundInFrameIsReconciledInFrame ==
    pc = "Flush" =>
        \A p \in Range(imgs) :
            p \in existing_paths \/ \E k \in DOMAIN commands : commands[k].target = p

\* The second scan was executed in this frame and has put in imgs a path
\* that has no quad; its spawn is queued in the same frame.
C13_Witness ==
    /\ pc = "Flush"
    /\ Len(scan_times) = 2
    /\ scan_times[2] = now
    /\ quads # <<>>
    /\ \E k \in DOMAIN commands : commands[k].target \notin existing_paths

(* C14: the reconciliation step is run in a frame if and only if imgs is   *)
(* not empty then; while imgs is empty no tile is created or changed.      *)
C14_ReconciliationRunsIffFoundNonEmpty ==
    /\ [](pc = "Flush" => (pass_ran <=> imgs # <<>>))
    /\ [][imgs = <<>> => (quads' = quads /\ commands' = <<>>)]_vars

\* A scan has found nothing, quads of an earlier pass exist, and the
\* reconciliation step was not run in this frame.
C14_Witness ==
    /\ pc = "Flush"
    /\ imgs = <<>>
    /\ ~pass_ran
    /\ quads # <<>>
    /\ Len(scan_times) = 2

(* C15: the position of a new tile is given by the index i of its path in  *)
(* imgs, by Len(imgs) and by the spacing alone: with g the least integer   *)
(* such that g * g >= Len(imgs), row = i div g and col = i mod g, it is    *)
(* x = col * spacing - (g - 1) * spacing / 2, y = 0,                       *)
(* z = row * spacing - (g - 1) * spacing / 2.  Lengths are in quarters of  *)
(* a unit, the spacing 2.5 is 10.                                          *)
C15_PositionFollowsIndexInFound ==
    pc = "Flush" =>
        \A k \in DOMAIN commands :
            \E i \in 0..(Len(imgs) - 1), g \in 1..Len(imgs) :
                /\ imgs[i + 1] = commands[k].target
                /\ g * g >= Len(imgs)
                /\ (g - 1) * (g - 1) < Len(imgs)
                /\ commands[k].pos.y = 0
                /\ 2 * commands[k].pos.x = 2 * (i % g) * 10 - (g - 1) * 10
                /\ 2 * commands[k].pos.z = 2 * (i \div g) * 10 - (g - 1) * 10

\* Five images were found; the one at index 3, the only path at that place
\* of the list that is new, is placed at x = -2.5, z = 0, and a new path is
\* placed by an index that is not its rank among the new paths.
C15_Witness ==
    /\ pc = "Flush"
    /\ Len(imgs) = 5
    /\ \E k \in DOMAIN commands :
           /\ commands[k].target = imgs[4]
           /\ commands[k].pos = [x |-> -10, y |-> 0, z |-> 0]
           /\ k # 4

(* C16: the reconciliation step only creates tiles: it leaves dirs, imgs   *)
(* and last_scan as they are, and last_scan is written by the scan step    *)
(* alone.                                                                  *)
C16_ReconciliationOnlyCreatesTiles ==
    [][/\ pc = "Update" => UNCHANGED <<dirs, imgs, last_scan, quads>>
       /\ last_scan' # last_scan => pc = "PreUpdate"]_vars

\* A pass has queued spawns.
C16_Witness ==
    /\ pc = "Flush"
    /\ commands # <<>>
    /\ last_scan = Some(now)

(* C17: the first scan step executes a scan pass whatever the clock shows; *)
(* every executed pass sets last_scan to the current time, also when a     *)
(* root is missing or a directory read fails, so that the pass is not      *)
(* tried again before the interval has elapsed.                            *)
C17_EveryPassRecordsItsTime ==
    [][/\ (pc = "PreUpdate" /\ last_scan = None) => scan_times' = <<now>>
       /\ ScanExecuted => last_scan' = Some(now)
       /\ (pc = "PreUpdate" /\ scan_times # <<>>
              /\ now < scan_times[Len(scan_times)] + 5) => ~ScanExecuted]_vars

\* The first pass was executed later than time 0 and lost images to a
\* directory read that failed; a later scan step has not tried again.
C17_Witness ==
    /\ pc = "Update"
    /\ Len(scan_times) = 1
    /\ scan_times[1] > 0
    /\ now > scan_times[1]
    /\ disk_ops = 1
    /\ unreadable # {}
    /\ Range(imgs) # ImagesUnderRoots

(* C18: in one pass over an imgs of length n >= 1 every index below n gets *)
(* a row and a column in 0..g-1, with g the grid size of the pass, and two *)
(* different indices get different cells.                                  *)
C18_CellsAreInsideTheGridAndDistinct ==
    grid.pos # None =>
        LET n == grid.len
            g == CHOOSE h \in 1..n : h * h >= n /\ (h - 1) * (h - 1) < n
            pos == grid.pos[1]
        IN  /\ \E row, col \in 0..(g - 1) :
                   /\ pos.x = col * 10 - (g - 1) * 5
                   /\ pos.z = row * 10 - (g - 1) * 5
            /\ \A j \in 0..(n - 1) :
                   j # grid.index =>
                       calculate_grid_position(j, ceil_sqrt(n), quad_spacing)
                           # pos

\* The last index of an imgs whose length is no square: 10 images on a grid
\* of 4 by 4, index 9 in row 2 and column 1.
C18_Witness ==
    /\ grid.len = 10
    /\ grid.index = 9
    /\ grid.pos = Some([x |-> -5, y |-> 0, z |-> 5])

(* C19: any two tiles with different source paths have different grid      *)
(* positions.                                                              *)
C19_DistinctPathsDistinctPositions ==
    \A i, j \in DOMAIN quads :
        quads[i].target # quads[j].target => quads[i].pos # quads[j].pos

====
